---------------------------- MODULE Spec2Model ----------------------------
(***************************************************************************)
(* Expression trees of gp/node.py: the node variants and their evaluation  *)
(* (BaseNode.__call__ and the call methods), and the recursive random tree *)
(* generator (generate_random_tree, _generate_random_tree).                *)
(*                                                                         *)
(* A number is a record [t, n, d]: Python type t ("int" or "float") and    *)
(* the value n/d in lowest terms with d > 0.  Floats are modelled by the   *)
(* exact quotient (no rounding).  An exception raised by an evaluation is  *)
(* a record [err]; one raised by the generator is a record [exc, line].    *)
(* A node is a record [kind, value, children]; nodes built by the          *)
(* generator also carry id, the identity of the Python object.             *)
(***************************************************************************)
EXTENDS Integers, Sequences, FiniteSets, TLC

VARIABLES
    \* evaluation of a directly constructed tree
    tree,       \* the node that is called
    epc,        \* "built" before the call, "evaluated" after it
    ctxArg,     \* the context argument the node was called with
    value,      \* what the call returned or raised
    \* generate_random_tree
    pc,         \* "idle", "running", "returned", "failed"
    req,        \* the arguments of the running call
    param_set,  \* the ParamNode instances made on line 219
    stack,      \* the frames of _generate_random_tree, innermost last
    nextId,     \* identity of the next object constructed
    draws,      \* number of calls made to the random module
    result,     \* the returned tree (a sequence of at most one node)
    error       \* the exception that ended the call, and the line that raised it

evalVars == <<tree, epc, ctxArg, value>>
genVars == <<pc, req, param_set, stack, nextId, draws, result, error>>
vars == <<tree, epc, ctxArg, value, pc, req, param_set, stack, nextId, draws, result, error>>

--------------------------------------------------------------------------
\* Bounds of the model.

\* largest number of nodes of a directly constructed tree
MaxSize == 3
\* longest context sequence, and largest parameter index
MaxCtx == 2
\* largest max_depth passed to generate_random_tree
MaxDepth == 2
\* largest num_params passed to generate_random_tree
MaxParams == 3
\* largest number of leaves a generated tree may need (num_params ^ max_depth)
MaxLeaves == 4

\* constants a TerminalNode is built with, and the entries of a context
TermValues == {0, 2}
CtxValues == {0, 2}

--------------------------------------------------------------------------
\* Numbers and exceptions.

Abs(x) == IF x < 0 THEN -x ELSE x

RECURSIVE Gcd(_, _)
Gcd(a, b) == IF b = 0 THEN a ELSE Gcd(b, a % b)

\* n/d in lowest terms with a positive denominator (d # 0)
Num(t, n, d) ==
    LET g == Gcd(Abs(n), Abs(d))
        s == IF d < 0 THEN -1 ELSE 1
    IN  [t |-> t, n |-> (s * n) \div g, d |-> (s * d) \div g]

IntV(k) == [t |-> "int", n |-> k, d |-> 1]
Err(e) == [err |-> e]
IsErr(v) == "err" \in DOMAIN v

\* Python's ==: numbers compare by value whatever their type
NumEq(a, b) == ~IsErr(a) /\ ~IsErr(b) /\ a.n = b.n /\ a.d = b.d

JoinType(a, b) == IF a.t = "int" /\ b.t = "int" THEN "int" ELSE "float"

PyAdd(a, b) == Num(JoinType(a, b), a.n * b.d + b.n * a.d, a.d * b.d)
PySub(a, b) == Num(JoinType(a, b), a.n * b.d - b.n * a.d, a.d * b.d)
PyMul(a, b) == Num(JoinType(a, b), a.n * b.n, a.d * b.d)
PyNeg(a) == Num(a.t, -a.n, a.d)
PyFloat(a) == [a EXCEPT !.t = "float"]
\* a / b with a float operand
PyTrueDiv(a, b) ==
    IF b.n = 0 THEN Err("ZeroDivisionError")
    ELSE Num("float", a.n * b.d, a.d * b.n)

\* functools.reduce(operator.mul, vals, init)
RECURSIVE ReduceMul(_, _)
ReduceMul(vals, init) ==
    IF vals = <<>> THEN init ELSE ReduceMul(Tail(vals), PyMul(init, Head(vals)))

\* functools.reduce(operator.sub, vals, init)
RECURSIVE ReduceSub(_, _)
ReduceSub(vals, init) ==
    IF vals = <<>> THEN init ELSE ReduceSub(Tail(vals), PySub(init, Head(vals)))

\* sum(vals), which starts from the int 0
RECURSIVE PySum(_, _)
PySum(vals, init) ==
    IF vals = <<>> THEN init ELSE PySum(Tail(vals), PyAdd(init, Head(vals)))

--------------------------------------------------------------------------
\* Nodes and their call methods.

FuncKinds == {"Addition", "Multiplication", "Division", "Subtraction"}

TerminalNode(v) == [kind |-> "Terminal", value |-> v, children |-> <<>>]
ParamNode(i) == [kind |-> "Param", value |-> i, children |-> <<>>]
FuncNode(k, args) == [kind |-> k, value |-> 0, children |-> args]

\* TerminalNode.call
TerminalNode_call(node, context, children_values) == IntV(node.value)

\* ParamNode.call: context[self._index]; a negative index counts from the end
ParamNode_call_first(node, context, children_values) ==
    IF context = <<>> THEN Err("IndexError") ELSE IntV(context[1])
ParamNode_call(node, context, children_values) ==
    LET i == node.value
        n == Len(context)
    IN  IF i >= n \/ i < -n THEN Err("IndexError")
        ELSE IF i >= 0 THEN IntV(context[i + 1])
        ELSE IntV(context[n + i + 1])

\* AdditionNode.call
AdditionNode_call(node, context, children_values) == PySum(children_values, IntV(0))

\* MultiplicationNode.call
MultiplicationNode_call(node, context, children_values) ==
    ReduceMul(children_values, IntV(1))

\* DivisionNode.call.  self._children is the list the constructor was given,
\* never None, so the guard on line 179 is decided by the context alone.
DivisionNode_call_swapped(node, context, children_values) ==
    IF context = <<>> THEN IntV(1)
    ELSE IF Len(node.children) = 1
    THEN PyTrueDiv(PyFloat(children_values[1]), IntV(1))
    ELSE IF children_values = <<>> THEN Err("IndexError")
    ELSE PyTrueDiv(PyFloat(ReduceMul(Tail(children_values), IntV(1))),
                   children_values[1])
DivisionNode_call(node, context, children_values) ==
    IF context = <<>> THEN IntV(1)
    ELSE IF Len(node.children) = 1
    THEN PyTrueDiv(PyFloat(IntV(1)), PyFloat(children_values[1]))
    ELSE IF children_values = <<>> THEN Err("IndexError")
    ELSE PyTrueDiv(PyFloat(children_values[1]),
                   ReduceMul(Tail(children_values), IntV(1)))

\* SubtractionNode.call
SubtractionNode_call(node, context, children_values) ==
    IF Len(node.children) > 1
    THEN ReduceSub(Tail(children_values), Head(children_values))
    ELSE IF children_values = <<>> THEN Err("IndexError")
    ELSE PyNeg(children_values[1])

\* dispatch of self.call on the node's class
NodeCall(node, context, children_values) ==
    CASE node.kind = "Terminal" -> TerminalNode_call(node, context, children_values)
      [] node.kind = "Param" -> ParamNode_call(node, context, children_values)
      [] node.kind = "Addition" -> AdditionNode_call(node, context, children_values)
      [] node.kind = "Multiplication" ->
            MultiplicationNode_call(node, context, children_values)
      [] node.kind = "Division" -> DivisionNode_call(node, context, children_values)
      [] node.kind = "Subtraction" ->
            SubtractionNode_call(node, context, children_values)

\* A context argument: None, or a sequence of numbers.
NoneArg == [isNone |-> TRUE, items |-> <<>>]
ListArg(s) == [isNone |-> FALSE, items |-> s]

\* line 73: context = [] if not context else context
Normalize(arg) == IF arg.isNone \/ arg.items = <<>> THEN <<>> ELSE arg.items

\* the exception of the leftmost child that raised: the list comprehension on
\* line 74 calls the children left to right and stops at the first exception
RECURSIVE FirstErr(_)
FirstErr(vals) ==
    IF vals = <<>> THEN <<>>
    ELSE IF IsErr(Head(vals)) THEN <<Head(vals)>>
    ELSE FirstErr(Tail(vals))

\* BaseNode.__call__
RECURSIVE BaseNode_call(_, _)
BaseNode_call(node, arg) ==
    LET context == Normalize(arg)
        results == [i \in 1..Len(node.children) |->
                        BaseNode_call(node.children[i], ListArg(context))]
        raised == FirstErr(results)
    IN  IF raised # <<>> THEN raised[1] ELSE NodeCall(node, context, results)

--------------------------------------------------------------------------
\* Directly constructed trees, as the tests build them: every tree of at most
\* MaxSize nodes.

SeqsUpTo(S, n) == UNION {[1..k -> S] : k \in 0..n}

Contexts == SeqsUpTo(CtxValues, MaxCtx)
ContextArgs == {NoneArg} \cup {ListArg(s) : s \in Contexts}

Leaves == {TerminalNode(v) : v \in TermValues}
            \cup {ParamNode(i) : i \in -1..MaxCtx}

RECURSIVE TreesOfSize(_), Forests(_, _)
\* the trees with exactly n nodes
TreesOfSize(n) ==
    (IF n = 1 THEN Leaves ELSE {})
    \cup {FuncNode(k, f) : k \in FuncKinds,
                            f \in UNION {Forests(n - 1, c) : c \in 0..(n - 1)}}
\* the sequences of c trees with n nodes in all
Forests(n, c) ==
    IF c = 0 THEN (IF n = 0 THEN {<<>>} ELSE {})
    ELSE UNION {{<<t>> \o f : t \in TreesOfSize(m), f \in Forests(n - m, c - 1)}
                    : m \in 1..n}

Trees == UNION {TreesOfSize(n) : n \in 1..MaxSize}

\* no exception, and the exception of class e raised on line l
NoError == [exc |-> "", line |-> 0]
Exc(e, l) == [exc |-> e, line |-> l]

\* before generate_random_tree is called
GenIdle ==
    /\ pc = "idle"
    /\ req = [num_params |-> 0, func_set |-> <<>>, term_set |-> <<>>,
              max_depth |-> 0, method |-> "FULL"]
    /\ param_set = <<>>
    /\ stack = <<>>
    /\ nextId = 1
    /\ draws = 0
    /\ result = <<>>
    /\ error = NoError

EvalInit ==
    /\ tree \in Trees
    /\ epc = "built"
    /\ ctxArg = NoneArg
    /\ value = IntV(0)
    /\ GenIdle

\* node(context)
Evaluate ==
    /\ epc = "built"
    /\ \E arg \in ContextArgs :
          /\ ctxArg' = arg
          /\ value' = BaseNode_call(tree, arg)
    /\ epc' = "evaluated"
    /\ UNCHANGED <<tree, genVars>>

EvalNext == Evaluate

EvalSpec == EvalInit /\ [][EvalNext]_vars

--------------------------------------------------------------------------
\* Properties of evaluation (checked under EvalSpec).

\* the values of the called node's children, each against the same context
ChildValues ==
    [i \in 1..Len(tree.children) |-> BaseNode_call(tree.children[i], ctxArg)]

\* the exact product of a sequence of numbers, as a fraction n/d
RECURSIVE ProductOf(_)
ProductOf(vals) ==
    IF vals = <<>> THEN [n |-> 1, d |-> 1]
    ELSE LET rest == ProductOf(Tail(vals))
         IN  [n |-> Head(vals).n * rest.n, d |-> Head(vals).d * rest.d]

\* the case C5 is about: a Division node with children that all have values,
\* a non-empty context and non-zero divisors
DivisionCase ==
    /\ epc = "evaluated"
    /\ tree.kind = "Division"
    /\ Normalize(ctxArg) # <<>>
    /\ Len(tree.children) >= 1
    /\ \A i \in 1..Len(tree.children) : ~IsErr(ChildValues[i])
    /\ IF Len(tree.children) = 1 THEN ChildValues[1].n # 0
       ELSE \A i \in 2..Len(tree.children) : ChildValues[i].n # 0

C6_ParamLookup ==
    (epc = "evaluated" /\ tree.kind = "Param" /\ ~ctxArg.isNone /\ tree.value >= 0) =>
        IF tree.value < Len(ctxArg.items)
        THEN value = IntV(ctxArg.items[tree.value + 1])
        ELSE value = Err("IndexError")

C6_Witness ==
    /\ epc = "evaluated"
    /\ tree.kind = "Param"
    /\ tree.value = 1
    /\ ~ctxArg.isNone
    /\ Len(ctxArg.items) = 2
    /\ ctxArg.items[1] # ctxArg.items[2]
    /\ value = IntV(ctxArg.items[2])

\* a tree whose leaves are all Terminal nodes
RECURSIVE ConstantOnly(_)
ConstantOnly(node) ==
    \/ node.kind = "Terminal"
    \/ /\ node.kind \in FuncKinds
       /\ node.children # <<>>
       /\ \A i \in 1..Len(node.children) : ConstantOnly(node.children[i])

\* the same outcome: the same number (Python's ==), or the same exception
SameOutcome(a, b) == IF IsErr(a) \/ IsErr(b) THEN a = b ELSE NumEq(a, b)

\* C7: a tree without Parameter leaves evaluates to the same value against
\* every context, the empty one included.
C7_ContextIndependent ==
    (epc = "evaluated" /\ ConstantOnly(tree)) =>
        \A arg \in ContextArgs : SameOutcome(value, BaseNode_call(tree, arg))

\* C9: a Division node called with an empty context, or having no children,
\* returns 1 and raises nothing, whatever its children are.
C9_DivisionFallback ==
    (/\ epc = "evaluated"
     /\ tree.kind = "Division"
     /\ (Normalize(ctxArg) = <<>> \/ tree.children = <<>>))
        => NumEq(value, IntV(1))

--------------------------------------------------------------------------
\* generate_random_tree and _generate_random_tree.

\* FUNCTION_SET (line 207); every class in it has ARITY = float('inf')
FUNCTION_SET == <<"Addition", "Multiplication", "Division", "Subtraction">>
ARITY(func) == [inf |-> func \in FuncKinds, n |-> 0]

\* choose_param = 0.8 (line 224), in tenths
ChooseParamTenths == 8
\* outcomes of random.random(), in tenths
RandomTenths == {0, 4, 8, 9}

Methods == {"GROW", "FULL"}
FuncSets == {<<>>, FUNCTION_SET}
\* the terminal catalog holds TerminalNode instances built by the caller
TermSets == {<<>>, <<TerminalNode(2) @@ [id |-> 1]>>}

RECURSIVE Pow(_, _)
Pow(b, e) == IF e = 0 THEN 1 ELSE b * Pow(b, e - 1)

\* the (num_params, max_depth) pairs that are tried
Sizes == {p \in (-1..MaxParams) \X (0..MaxDepth) :
            p[1] <= 1 \/ Pow(p[1], p[2]) <= MaxLeaves}

Frame(d) == [state |-> "entry", max_depth |-> d, func |-> "", num_args |-> 0,
             args |-> <<>>]
Top == stack[Len(stack)]
Pop(s) == SubSeq(s, 1, Len(s) - 1)

\* line 216
InvalidNumParams_loose(n) == n < -1
InvalidNumParams(n) == n < 0

\* line 219: [ParamNode(i) for i in range(num_params)]
MakeParams(n, first) ==
    [i \in 1..(IF n > 0 THEN n ELSE 0) |-> ParamNode(i - 1) @@ [id |-> first + i - 1]]

\* line 241: the test that ends the recursion with a leaf; r is the outcome
\* of random.random() in tenths, compared with terms_to_funcs = terms / total
StopsHere_any(max_depth, method, r, terms, total) ==
    max_depth = 0 \/ r * total < 10 * terms
StopsHere_nodepth(max_depth, method, r, terms, total) ==
    method = "GROW" /\ r * total < 10 * terms
StopsHere(max_depth, method, r, terms, total) ==
    max_depth = 0 \/ (method = "GROW" /\ r * total < 10 * terms)

\* line 249: the depth passed to the recursive call
ChildDepth_same(max_depth) == max_depth
ChildDepth(max_depth) == max_depth - 1

\* line 249: the list comprehension collects one new subtree per iteration
Collect_repeat(args, v, num_args) == [i \in 1..num_args |-> v]
Collect(args, v, num_args) == Append(args, v)

\* a value comes back from the innermost frame: to the caller of
\* generate_random_tree, or into the args of the frame below
Return(v) ==
    IF Len(stack) = 1
    THEN /\ result' = <<v>>
         /\ pc' = "returned"
         /\ stack' = <<>>
    ELSE LET below == stack[Len(stack) - 1]
         IN  /\ stack' = [Pop(stack) EXCEPT ![Len(stack) - 1].args =
                              Collect(below.args, v, below.num_args)]
             /\ UNCHANGED <<result, pc>>

\* an exception is caught nowhere: it ends the whole call
Raise(e) ==
    /\ pc' = "failed"
    /\ error' = e
    /\ stack' = <<>>
    /\ UNCHANGED result

Terms == Len(req.term_set) + Len(param_set)
Total == Len(req.term_set) + Len(param_set) + Len(req.func_set)

\* generate_random_tree (lines 209-221), up to the call on line 221
Call(num_params, func_set, term_set, max_depth, method) ==
    /\ pc = "idle"
    /\ req' = [num_params |-> num_params, func_set |-> func_set,
               term_set |-> term_set, max_depth |-> max_depth, method |-> method]
    /\ IF InvalidNumParams(num_params)
       THEN /\ pc' = "failed"
            /\ error' = Exc("ValueError", 217)
            /\ nextId' = Len(term_set) + 1
            /\ UNCHANGED <<param_set, stack>>
       ELSE /\ pc' = "running"
            /\ param_set' = MakeParams(num_params, Len(term_set) + 1)
            /\ nextId' = Len(term_set) + 1 + Len(param_set')
            /\ stack' = <<Frame(max_depth)>>
            /\ UNCHANGED error
    /\ UNCHANGED <<draws, result, evalVars>>

\* lines 238-239: the division fails when all three catalogs are empty
GenRatioError ==
    /\ pc = "running"
    /\ Top.state = "entry"
    /\ Total = 0
    /\ Raise(Exc("ZeroDivisionError", 238))
    /\ UNCHANGED <<req, param_set, nextId, draws, evalVars>>

\* lines 241-244 and 252: a leaf is chosen and returned
GenLeaf ==
    /\ pc = "running"
    /\ Top.state = "entry"
    /\ Total > 0
    /\ \E r \in RandomTenths, c \in RandomTenths :
          LET drawn == IF Top.max_depth # 0 /\ req.method = "GROW" THEN 1 ELSE 0
              from == IF c <= ChooseParamTenths THEN param_set ELSE req.term_set
              line == IF c <= ChooseParamTenths THEN 242 ELSE 244
          IN  /\ StopsHere(Top.max_depth, req.method, r, Terms, Total)
              /\ draws' = draws + drawn + 2
              /\ IF from = <<>>
                 THEN Raise(Exc("IndexError", line))
                 ELSE \E k \in 1..Len(from) : Return(from[k]) /\ UNCHANGED error
    /\ UNCHANGED <<req, param_set, nextId, evalVars>>

\* lines 246-247: a function and its number of arguments are chosen
GenFunc ==
    /\ pc = "running"
    /\ Top.state = "entry"
    /\ Total > 0
    /\ \E r \in RandomTenths :
          LET drawn == IF Top.max_depth # 0 /\ req.method = "GROW" THEN 1 ELSE 0
          IN  /\ ~StopsHere(Top.max_depth, req.method, r, Terms, Total)
              /\ IF req.func_set = <<>>
                 THEN /\ draws' = draws + drawn + 1
                      /\ Raise(Exc("IndexError", 246))
                 ELSE \E f \in 1..Len(req.func_set) :
                        LET func == req.func_set[f]
                            arity == ARITY(func)
                            counts == IF arity.inf THEN 1..req.num_params
                                      ELSE {arity.n}
                        IN  IF counts = {}
                            THEN /\ draws' = draws + drawn + 2
                                 /\ Raise(Exc("ValueError", 247))
                            ELSE /\ draws' = draws + drawn
                                             + (IF arity.inf THEN 2 ELSE 1)
                                 /\ \E n \in counts :
                                       stack' = [stack EXCEPT ![Len(stack)] =
                                              [@ EXCEPT !.state = "args", !.func = func,
                                                        !.num_args = n]]
                                 /\ UNCHANGED <<pc, result, error>>
    /\ UNCHANGED <<req, param_set, nextId, evalVars>>

\* line 249: the recursive call for the next argument
GenRecurse ==
    /\ pc = "running"
    /\ Top.state = "args"
    /\ Len(Top.args) < Top.num_args
    /\ stack' = Append(stack, Frame(ChildDepth(Top.max_depth)))
    /\ UNCHANGED <<pc, req, param_set, nextId, draws, result, error, evalVars>>

\* lines 251-252: func(args) is constructed and returned
GenConstruct ==
    /\ pc = "running"
    /\ Top.state = "args"
    /\ Len(Top.args) >= Top.num_args
    /\ Return(FuncNode(Top.func, Top.args) @@ [id |-> nextId])
    /\ nextId' = nextId + 1
    /\ UNCHANGED <<req, param_set, draws, error, evalVars>>

EvalIdle ==
    /\ tree = TerminalNode(0)
    /\ epc = "none"
    /\ ctxArg = NoneArg
    /\ value = IntV(0)

Init == GenIdle /\ EvalIdle

Next ==
    \/ \E p \in Sizes, fs \in FuncSets, ts \in TermSets, m \in Methods :
          Call(p[1], fs, ts, p[2], m)
    \/ GenRatioError
    \/ GenLeaf
    \/ GenFunc
    \/ GenRecurse
    \/ GenConstruct

Spec == Init /\ [][Next]_vars

\* the interpreter runs the call to its end: a step that can be taken is taken
FairSpec == Spec /\ WF_vars(Next)

--------------------------------------------------------------------------
\* Properties of generation (checked under Spec; C8 under FairSpec).

Done == pc \in {"returned", "failed"}

\* the depths of the leaves (nodes without children) under node, itself at depth d
RECURSIVE LeafDepths(_, _)
LeafDepths(node, d) ==
    IF node.children = <<>> THEN {d}
    ELSE UNION {LeafDepths(node.children[i], d + 1) : i \in 1..Len(node.children)}

\* C1: every leaf of a tree returned for method FULL and max_depth = d >= 0 is
\* at depth exactly d; for d = 0 the tree is a single leaf.
C1_FullLeavesAtMaxDepth ==
    (pc = "returned" /\ req.method = "FULL") =>
        LeafDepths(result[1], 0) = {req.max_depth}

C1_Witness ==
    /\ pc = "returned"
    /\ req.method = "FULL"
    /\ req.max_depth = 2
    /\ Len(result[1].children) = 2
    /\ Len(req.term_set) = 1

\* C2: every leaf of a tree returned for method GROW and max_depth = d >= 0 is
\* at depth at most d (leaves above depth d do occur: see the witness).
C2_GrowDepthBound ==
    (pc = "returned" /\ req.method = "GROW") =>
        \A d \in LeafDepths(result[1], 0) : d <= req.max_depth

C2_Witness ==
    /\ pc = "returned"
    /\ req.method = "GROW"
    /\ req.max_depth = 2
    /\ LeafDepths(result[1], 0) = {1, 2}

\* C3: generate_random_tree with num_params < 0 fails with ValueError whatever
\* the other arguments are, before any random draw and before any node is
\* constructed.
C3_NegativeParamsRejected ==
    (pc # "idle" /\ req.num_params < 0) =>
        /\ pc = "failed"
        /\ error = Exc("ValueError", 217)
        /\ draws = 0
        /\ nextId = Len(req.term_set) + 1
        /\ param_set = <<>>
        /\ result = <<>>

C3_Witness ==
    /\ pc = "failed"
    /\ req.num_params < 0
    /\ req.func_set # <<>>
    /\ req.term_set # <<>>
    /\ req.method = "GROW"

\* C4: with num_params >= 0 and non-empty function and terminal sets the call
\* returns a tree on every outcome of the draws; generation fails only with
\* the ValueError of a negative num_params or when the empty terminal set is
\* sampled.
C4_GenerationSucceeds ==
    /\ (Done /\ req.num_params >= 0 /\ req.func_set # <<>> /\ req.term_set # <<>>)
          => pc = "returned"
    /\ (pc = "failed" /\ req.func_set # <<>>) =>
          \/ req.num_params < 0 /\ error = Exc("ValueError", 217)
          \/ req.term_set = <<>> /\ error = Exc("IndexError", 244)

\* a recursive call is made from a frame whose depth is above 0, with that
\* depth less one
DepthDecreases ==
    Len(stack') = Len(stack) + 1 =>
        /\ Len(stack) = 0 \/ Top.max_depth > 0
        /\ Len(stack) = 0 \/ stack'[Len(stack')].max_depth = Top.max_depth - 1
        /\ stack'[Len(stack')].max_depth >= 0

\* C8: every call of generate_random_tree finishes, returning or failing: the
\* depth drops by one on each recursive call, which is made only above depth 0.
C8_GenerationTerminates ==
    /\ [][DepthDecreases]_vars
    /\ (pc = "running") ~> Done

C8_Witness ==
    /\ pc = "returned"
    /\ req.max_depth = 2
    /\ req.num_params = 2
    /\ LeafDepths(result[1], 0) = {2}
    /\ Len(result[1].children) = 2
    /\ \A i \in 1..2 : Len(result[1].children[i].children) = 2

\* the identities of all child occurrences under node, in preorder
RECURSIVE ChildIds(_), ChildIdsOf(_)
ChildIds(node) == ChildIdsOf(node.children)
ChildIdsOf(nodes) ==
    IF nodes = <<>> THEN <<>>
    ELSE <<Head(nodes).id>> \o ChildIds(Head(nodes)) \o ChildIdsOf(Tail(nodes))

Ids(seq) == {seq[i] : i \in DOMAIN seq}

\* no node is reachable from itself
RECURSIVE Acyclic(_)
Acyclic(node) ==
    /\ node.id \notin Ids(ChildIds(node))
    /\ \A i \in 1..Len(node.children) : Acyclic(node.children[i])

\* the identities that occur more than once as a child
SharedIds(node) ==
    LET occ == ChildIds(node)
    IN  {occ[i] : i \in {j \in DOMAIN occ : \E k \in DOMAIN occ : k # j /\ occ[k] = occ[j]}}

CatalogIds == Ids([i \in DOMAIN param_set |-> param_set[i].id])
                \cup Ids([i \in DOMAIN req.term_set |-> req.term_set[i].id])

\* C10 as stated: in a returned tree no node instance occurs as a child twice
\* (under two parents or under one), and no node is reachable from itself.
C10_SingleOwner ==
    pc = "returned" => (Acyclic(result[1]) /\ SharedIds(result[1]) = {})

\* C10 as amended: a returned tree is acyclic and no operator node instance
\* occurs as a child twice; only the leaf instances of the parameter catalog
\* and of terminal_set can occur several times.
C10_OperatorsSingleOwner ==
    pc = "returned" =>
        /\ Acyclic(result[1])
        /\ SharedIds(result[1]) \subseteq CatalogIds

C10_Witness ==
    /\ pc = "returned"
    /\ SharedIds(result[1]) # {}
    /\ \E i \in 1..Len(result[1].children) : result[1].children[i].children # <<>>

==========================================================================
